---- MODULE Spec2Model ----
(***************************************************************************)
(* FluentClip (src/fluentclip.py): the clipboard history kept by the       *)
(* FluentClip window, its polling timer, the settings and clear dialogs    *)
(* and the history file; the search entry and the selection of a row; the  *)
(* window's visibility flag, the Super+V capture thread and the launches   *)
(* of further processes (single_instance_check).                           *)
(*                                                                         *)
(* Representation.                                                         *)
(*   - A Python str is a sequence of one-character strings: "" is <<>>.    *)
(*   - A value that may be None is a sequence of length at most one:       *)
(*     None is <<>>, the value x is <<x>>.                                 *)
(*   - A datetime is a number of clock ticks; TicksPerSec ticks make one   *)
(*     second, the rest is the sub-second (microsecond) part.              *)
(*   - A ClipboardItem is a record [content, timestamp, type, image_data]. *)
(*   - The history file is None (no file) or what it holds: a record      *)
(*     [kind, items], kind "list" for a JSON list with items its elements, *)
(*     each a function from its keys to its values; kind "object" for a    *)
(*     JSON value that is not a list; kind "garbage" for bytes json.load   *)
(*     rejects.  json.dump / json.load of a list is lossless; what is      *)
(*     modelled is what to_dict and from_dict put into and take out of it. *)
(*   - The spin button's range and the default capacity (5, 100 and 30 in  *)
(*     the code) are bounds of the model, scaled down so that a history    *)
(*     can outgrow them; 1 <= lower < default < upper is kept.             *)
(***************************************************************************)
EXTENDS Integers, Sequences, FiniteSets, TLC

\* ------------------------------------------------------------- bounds
\* Number of distinct non-blank texts the clipboard may offer.
NumTexts == 2
\* Number of distinct images the clipboard may offer.
NumImages == 1
\* The clock stops advancing at this tick.
MaxClock == 1
\* Ticks in one second (the resolution below the second).
TicksPerSec == 2
\* self.max_history at construction (30 in the code), scaled.
DefaultMaxHistory == 2
\* Gtk.Adjustment lower and upper of the capacity spin button (5 and 100), scaled.
SpinLower == 1
SpinUpper == 3
\* Longest history of the round-trip specification.
RoundTripLen == 2
\* Longest list in the history file of the loading specification.
LoadLen == 2
\* Most callbacks that wait in the main loop's idle queue at one time.
MaxPending == 2
\* Number of launches of the program that are followed.
NumProcs == 3

\* ------------------------------------------------------------- values
None == <<>>

Some(x) == <<x>>

Letter == <<"a", "b", "c", "d", "e", "f", "g", "h">>

Digit == <<"0", "1", "2", "3", "4", "5", "6", "7", "8", "9">>

\* Whitespace characters, as str.strip() sees them.
IsSpace(c) == c \in {" ", "\t", "\n"}

\* The non-blank texts: the first one carries leading whitespace.
Text(i) == IF i = 1 THEN <<" ", Letter[1]>> ELSE <<Letter[i]>>

Texts == {Text(i) : i \in 1..NumTexts}

\* The empty and the whitespace-only text.
BlankTexts == {<<>>, <<" ">>}

\* What Gtk.Clipboard.wait_for_text() may return.
ClipTexts == {None} \cup {Some(t) : t \in Texts \cup BlankTexts}

\* What Gtk.Clipboard.wait_for_image() may return: a pixbuf or None.
Pixbufs == 1..NumImages

ClipImages == {None} \cup {Some(p) : p \in Pixbufs}

Times == 0..MaxClock

\* ------------------------------------------------------------- str helpers
RECURSIVE LStrip(_)
LStrip(s) == IF s # <<>> /\ IsSpace(Head(s)) THEN LStrip(Tail(s)) ELSE s

RECURSIVE RStrip(_)
RStrip(s) ==
    IF s # <<>> /\ IsSpace(s[Len(s)]) THEN RStrip(SubSeq(s, 1, Len(s) - 1)) ELSE s

\* str.strip()
Strip(s) == RStrip(LStrip(s))

\* ------------------------------------------------------------- datetime
\* timestamp.strftime('%Y-%m-%d %H:%M:%S'): the whole seconds, as text.
Strftime(ts) == <<Digit[(ts \div TicksPerSec) + 1]>>

\* datetime.isoformat(): the seconds, and the sub-second part only when it
\* is not zero.
IsoFormatSecondsOnly(ts) == <<ts \div TicksPerSec>>

IsoFormat(ts) ==
    IF ts % TicksPerSec = 0
    THEN <<ts \div TicksPerSec>>
    ELSE <<ts \div TicksPerSec, ts % TicksPerSec>>

\* datetime.fromisoformat()
FromIsoFormat(s) ==
    IF Len(s) = 1 THEN s[1] * TicksPerSec ELSE s[1] * TicksPerSec + s[2]

\* ------------------------------------------------------------- ClipboardItem
ClipboardItem(content, timestamp, item_type, image_data) ==
    [content |-> content, timestamp |-> timestamp, type |-> item_type,
     image_data |-> image_data]

\* base64.b64encode(png bytes of the pixbuf).decode('utf-8'): never empty.
B64Png(pixbuf) == <<"P", Letter[pixbuf]>>

\* f"Image {timestamp.strftime('%Y-%m-%d %H:%M:%S')}"
ImageLabel(ts) == <<"I", "m", "g", " ">> \o Strftime(ts)

\* Python truthiness of item.image_data: neither None nor "".
Truthy(opt) == opt # None /\ opt[1] # <<>>

to_dict(item) ==
    LET keys == {"content", "timestamp", "type"}
                \cup (IF Truthy(item.image_data) THEN {"image_data"} ELSE {})
    IN [k \in keys |->
           CASE k = "content" -> item.content
             [] k = "timestamp" -> IsoFormat(item.timestamp)
             [] k = "type" -> item.type
             [] OTHER -> item.image_data[1]]

from_dict(data) ==
    ClipboardItem(data["content"], FromIsoFormat(data["timestamp"]), data["type"],
                  IF "image_data" \in DOMAIN data THEN Some(data["image_data"])
                  ELSE None)

\* ------------------------------------------------------------- state
VARIABLES
    pc,               \* "start": constructed, history not loaded; "running": in the
                      \* main loop; "polled": in the main loop, check_clipboard
                      \* being the callback that returned last
    history,          \* self.history
    max_history,      \* self.max_history
    current_content,  \* self.current_content
    listbox,          \* the items of the rows self.listbox shows
    file,             \* history.json: None or Some(JSON value)
    clipText,         \* the text the clipboard offers, or None
    clipImage,        \* the image the clipboard offers, or None
    clock,            \* datetime.now()
    is_visible,       \* self.is_visible
    window,           \* the Gtk window: "hidden", "shown" or "iconified"
    super_pressed,    \* HotKeyManager.super_pressed
    keysDown,         \* the keys among Super_L, Super_R and v that are held down
    idleQueue,        \* number of callbacks GLib.idle_add has queued for the main loop
    procs,            \* per launched process: where it is in main(), and the
                      \* is_visible of its FluentClip
    busName           \* the processes that requested the bus name org.fluentclip,
                      \* in the order of their requests: the first one owns it

storeVars == <<pc, history, max_history, current_content, listbox, file, clipText,
               clipImage, clock>>

windowVars == <<is_visible, window>>

hotkeyVars == <<super_pressed, keysDown, idleQueue>>

busVars == <<procs, busName>>

vars == <<storeVars, windowVars, hotkeyVars, busVars>>

\* Gtk.main() runs: timers and signal handlers are dispatched.
Running == pc \in {"running", "polled"}

\* The processes whose launches are followed.
Procs == 1..NumProcs

\* HotKeyManager.__init__ and the fields __init__ gives the window, no key
\* held, nothing queued for the main loop, no process launched.
InitUi ==
    /\ is_visible = FALSE
    /\ window = "hidden"
    /\ super_pressed = FALSE
    /\ keysDown = {}
    /\ idleQueue = 0
    /\ procs = [p \in Procs |-> [at |-> "none", is_visible |-> FALSE]]
    /\ busName = <<>>

\* FluentClip.__init__ up to the call of load_history, on a machine that has
\* no history file yet.
Init ==
    /\ InitUi
    /\ pc = "start"
    /\ history = <<>>
    /\ max_history = DefaultMaxHistory
    /\ current_content = <<>>
    /\ listbox = <<>>
    /\ file = None
    /\ clipText = None
    /\ clipImage = None
    /\ clock = 0

\* ------------------------------------------------------------- list helpers
\* list.pop(i) (i counted from 1 here): the list without its i-th element.
Pop(h, i) == SubSeq(h, 1, i - 1) \o SubSeq(h, i + 1, Len(h))

\* list.insert(0, item)
InsertFront(h, item) == <<item>> \o h

\* "if len(self.history) > self.max_history:
\*      self.history = self.history[:self.max_history]"
LimitKeepTail(h, n) == IF Len(h) > n THEN SubSeq(h, Len(h) - n + 1, Len(h)) ELSE h

Limit(h, n) == IF Len(h) > n THEN SubSeq(h, 1, n) ELSE h

\* The index of the first text item with this content, 0 when there is none
\* (the loop "for i, item in enumerate(self.history)" of process_clipboard_text).
FindTextTopOnly(h, text) ==
    IF h # <<>> /\ h[1].type = "text" /\ h[1].content = text THEN 1 ELSE 0

FindText(h, text) ==
    LET hits == {i \in 1..Len(h) : h[i].type = "text" /\ h[i].content = text}
    IN IF hits = {} THEN 0 ELSE CHOOSE i \in hits : \A j \in hits : i <= j

\* The same loop of process_clipboard_image, on type "image" and image_data.
FindImage(h, image_data) ==
    LET hits == {i \in 1..Len(h) :
                    h[i].type = "image" /\ h[i].image_data = Some(image_data)}
    IN IF hits = {} THEN 0 ELSE CHOOSE i \in hits : \A j \in hits : i <= j

\* The guard of check_clipboard's text branch:
\* "if text and text != self.current_content and text.strip()".
IsNewTextNoStrip(text, cc) == text # None /\ text[1] # <<>> /\ text[1] # cc

IsNewText(text, cc) ==
    /\ text # None
    /\ text[1] # <<>>
    /\ text[1] # cc
    /\ Strip(text[1]) # <<>>

\* ------------------------------------------------------------- the history after an observation
\* "Move item to top": pop the match, put a new item with the time of the call
\* in front.
MoveTextKeepItem(h, i, text, now) == InsertFront(Pop(h, i), h[i])

MoveTextToTop(h, i, text, now) ==
    InsertFront(Pop(h, i), ClipboardItem(text, now, "text", None))

\* "Add new item" and "Limit history size".
AddText(h, text, now, cap) ==
    Limit(InsertFront(h, ClipboardItem(text, now, "text", None)), cap)

\* self.history after process_clipboard_text(text).
TextHistory(h, text, now, cap) ==
    LET i == FindText(h, text)
    IN IF i > 0 THEN MoveTextToTop(h, i, text, now) ELSE AddText(h, text, now, cap)

ImageItem(image_data, now) ==
    ClipboardItem(ImageLabel(now), now, "image", Some(image_data))

\* self.history after process_clipboard_image(pixbuf), the PNG encoding
\* having succeeded.
ImageHistory(h, pixbuf, now, cap) ==
    LET image_data == B64Png(pixbuf)
        i == FindImage(h, image_data)
    IN IF i > 0
       THEN InsertFront(Pop(h, i), ImageItem(image_data, now))
       ELSE Limit(InsertFront(h, ImageItem(image_data, now)), cap)

\* ------------------------------------------------------------- persistence
\* save_history: "data = [item.to_dict() for item in self.history]", written
\* over the file.
JsonList(items) == [kind |-> "list", items |-> items]

SavedNothing(h, old) == old

Saved(h, old) == Some(JsonList([i \in 1..Len(h) |-> to_dict(h[i])]))

\* from_dict(data) returns: data has the keys from_dict subscripts
\* (KeyError otherwise) and datetime.fromisoformat accepts the timestamp
\* (ValueError otherwise).
Decodes(data) ==
    /\ {"content", "timestamp", "type"} \subseteq DOMAIN data
    /\ Len(data["timestamp"]) \in {1, 2}

\* load_history's list comprehension over the parsed file.
Loaded(data) == [i \in 1..Len(data) |-> from_dict(data[i])]

\* load_history reaches refresh_list: the file exists, json.load returns a
\* list and from_dict accepts every record of it.
FileLoads(f) ==
    /\ f # None
    /\ f[1].kind = "list"
    /\ \A i \in 1..Len(f[1].items) : Decodes(f[1].items[i])

\* The list comprehension as a loop that appends to self.history: the
\* records before the first one from_dict rejects.
LoadedPrefix(f, h) ==
    IF f # None /\ f[1].kind = "list"
    THEN LET bad == {i \in 1..Len(f[1].items) : ~Decodes(f[1].items[i])}
             n == IF bad = {} THEN Len(f[1].items)
                  ELSE (CHOOSE i \in bad : \A j \in bad : i <= j) - 1
         IN Loaded(SubSeq(f[1].items, 1, n))
    ELSE h

\* self.history after load_history's try block, h before it: replaced when
\* the file exists, json.load returns a list and from_dict accepts every
\* record; otherwise the block is skipped or left by an exception before
\* the assignment.
LoadedHistory(f, h) ==
    IF FileLoads(f) THEN Loaded(f[1].items) ELSE h

\* The entries the history file holds: what load_history reads from it.
StoredEntries(f) == LoadedHistory(f, <<>>)

\* ------------------------------------------------------------- operations
\* The body of load_history: a file that loads replaces self.history, the
\* rows shown and, when it holds an entry, self.current_content.
LoadBody ==
    /\ history' = LoadedHistory(file, history)
    /\ IF FileLoads(file)
       THEN /\ listbox' = history'
            /\ current_content' =
                   IF history' # <<>> THEN history'[1].content ELSE current_content
       ELSE UNCHANGED <<listbox, current_content>>

\* load_history, called once from __init__; main() then shows the window
\* (app.show_all()) and starts the main loop.
load_history ==
    /\ pc = "start"
    /\ pc' = "running"
    /\ LoadBody
    /\ window' = "shown"
    /\ UNCHANGED <<max_history, file, clipText, clipImage, clock>>
    /\ UNCHANGED <<is_visible, hotkeyVars, busVars>>

\* process_clipboard_text(text): refresh_list and save_history end both branches.
process_clipboard_text(text) ==
    /\ current_content' = text
    /\ history' = TextHistory(history, text, clock, max_history)
    /\ listbox' = history'
    /\ file' = Saved(history', file)
    /\ UNCHANGED <<max_history, clipText, clipImage, clock>>

\* process_clipboard_image(pixbuf); nothing happens when save_to_bufferv fails.
process_clipboard_image(pixbuf, success) ==
    IF success
    THEN /\ history' = ImageHistory(history, pixbuf, clock, max_history)
         /\ listbox' = history'
         /\ file' = Saved(history', file)
         /\ UNCHANGED <<max_history, current_content, clipText, clipImage, clock>>
    ELSE UNCHANGED <<history, max_history, current_content, listbox, file, clipText,
                     clipImage, clock>>

\* One tick of the 500 ms timer. success: whether the PNG encoding of the
\* clipboard's image succeeds.
Poll(success) ==
    /\ Running
    /\ pc' = "polled"
    /\ UNCHANGED <<windowVars, hotkeyVars, busVars>>
    /\ IF IsNewText(clipText, current_content)
       THEN process_clipboard_text(clipText[1])
       ELSE IF clipImage # None
            THEN process_clipboard_image(clipImage[1], success)
            ELSE UNCHANGED <<history, max_history, current_content, listbox, file,
                             clipText, clipImage, clock>>

check_clipboard == \E success \in BOOLEAN : Poll(success)

\* on_clear_all with the dialog's answer.
ClearAllNoSave(response) ==
    /\ Running
    /\ pc' = "running"
    /\ UNCHANGED <<windowVars, hotkeyVars, busVars>>
    /\ IF response = "YES"
       THEN /\ history' = <<>>
            /\ listbox' = history'
            /\ UNCHANGED <<max_history, current_content, file, clipText,
                           clipImage, clock>>
       ELSE UNCHANGED <<history, max_history, current_content, listbox, file,
                        clipText, clipImage, clock>>

ClearAll(response) ==
    /\ Running
    /\ pc' = "running"
    /\ UNCHANGED <<windowVars, hotkeyVars, busVars>>
    /\ IF response = "YES"
       THEN /\ history' = <<>>
            /\ listbox' = history'
            /\ file' = Saved(history', file)
            /\ UNCHANGED <<max_history, current_content, clipText, clipImage, clock>>
       ELSE UNCHANGED <<history, max_history, current_content, listbox, file,
                        clipText, clipImage, clock>>

on_clear_all == \E response \in {"YES", "NO"} : ClearAll(response)

\* on_settings with the dialog's answer and the spin button's value.
Settings(response, value) ==
    /\ Running
    /\ pc' = "running"
    /\ UNCHANGED <<windowVars, hotkeyVars, busVars>>
    /\ IF response = "OK"
       THEN /\ max_history' = value
            /\ UNCHANGED <<history, current_content, listbox, file, clipText,
                           clipImage, clock>>
       ELSE UNCHANGED <<history, max_history, current_content, listbox, file,
                        clipText, clipImage, clock>>

on_settings ==
    \E response \in {"OK", "CANCEL"}, value \in SpinLower..SpinUpper :
        Settings(response, value)

\* The process ends (Gtk.main_quit) and main() constructs a new FluentClip:
\* the fields of __init__ again, the file and the clipboard as they were.
Restart ==
    /\ Running
    /\ pc' = "start"
    /\ history' = <<>>
    /\ max_history' = DefaultMaxHistory
    /\ current_content' = <<>>
    /\ listbox' = <<>>
    /\ is_visible' = FALSE
    /\ window' = "hidden"
    /\ super_pressed' = FALSE
    /\ idleQueue' = 0
    /\ UNCHANGED <<file, clipText, clipImage, clock, keysDown, busVars>>

\* ------------------------------------------------------------- environment
\* Another application takes the clipboard: text, an image, both or neither.
SetClipboard ==
    /\ \E t \in ClipTexts, p \in ClipImages :
           /\ <<t, p>> # <<clipText, clipImage>>
           /\ clipText' = t
           /\ clipImage' = p
    /\ pc' = IF pc = "polled" THEN "running" ELSE pc
    /\ UNCHANGED <<history, max_history, current_content, listbox, file, clock>>
    /\ UNCHANGED <<windowVars, hotkeyVars, busVars>>

\* Time passes; no callback runs.
Tick ==
    /\ clock < MaxClock
    /\ clock' = clock + 1
    /\ UNCHANGED <<pc, history, max_history, current_content, listbox, file,
                   clipText, clipImage>>
    /\ UNCHANGED <<windowVars, hotkeyVars, busVars>>

Next ==
    \/ load_history
    \/ check_clipboard
    \/ on_clear_all
    \/ on_settings
    \/ Restart
    \/ SetClipboard
    \/ Tick

Spec == Init /\ [][Next]_vars

\* ------------------------------------------------------------- observations
\* A poll that calls process_clipboard_text.
TextObservation == check_clipboard /\ IsNewText(clipText, current_content)

\* A poll that calls process_clipboard_image and encodes the image.
ImageObservation ==
    /\ Poll(TRUE)
    /\ ~IsNewText(clipText, current_content)
    /\ clipImage # None

\* The clipboard holds a text that is not blank.
HoldsNonBlankText == clipText # None /\ Strip(clipText[1]) # <<>>

\* The clipboard holds an empty or whitespace-only text.
HoldsBlankText == clipText # None /\ Strip(clipText[1]) = <<>>

\* What identifies an entry: its content for a text, its payload for an image.
Key(item) == IF item.type = "text" THEN item.content ELSE item.image_data

SameEntry(x, y) == x.type = y.type /\ Key(x) = Key(y)

\* ------------------------------------------------------------- C1
\* C1: in every state of the running program the history is no longer than
\* the capacity: Len(history) <= max_history.
C1_LengthWithinCapacity == Running => Len(history) <= max_history

\* ------------------------------------------------------------- C2
\* C2: after a poll in which the clipboard holds a non-blank text t (and no
\* image), the entry at index 0 of the history is the text entry with content
\* t: also when t is the last-seen content but not the entry at index 0.
C2_PollPutsTextFirst ==
    (pc = "polled" /\ HoldsNonBlankText /\ clipImage = None)
        => /\ history # <<>>
           /\ history[1].type = "text"
           /\ history[1].content = clipText[1]

\* ------------------------------------------------------------- C3
\* C3: setting the capacity to n truncates a longer history to its first n
\* entries in the same step and writes the truncated list to the file.
C3_SettingsTruncatesAndSaves ==
    [][\A n \in SpinLower..SpinUpper :
          (Settings("OK", n) /\ Len(history) > n)
              => /\ history' = SubSeq(history, 1, n)
                 /\ StoredEntries(file') = history']_vars

\* ------------------------------------------------------------- C4
\* C4: no two entries of the history have the same type and the same key
\* (content for text entries, image_data for image entries).
C4_NoDuplicates ==
    \A i, j \in 1..Len(history) : SameEntry(history[i], history[j]) => i = j

\* A history of three entries of both types, refreshed after its oldest one.
C4_Witness ==
    /\ Len(history) = 3
    /\ \E i, j \in 1..3 : history[i].type = "text" /\ history[j].type = "image"
    /\ history[1].timestamp > history[3].timestamp

C6_NewEntry ==
    IF IsNewText(clipText, current_content)
    THEN [content |-> clipText[1], timestamp |-> clock, type |-> "text",
          image_data |-> None]
    ELSE [content |-> ImageLabel(clock), timestamp |-> clock, type |-> "image",
          image_data |-> Some(B64Png(clipImage[1]))]

C7_UnchangedTextLeavesHistory ==
    [][(check_clipboard /\ history # <<>> /\ history[1].type = "text"
                        /\ clipText = Some(history[1].content))
        => history' = history]_vars

\* ------------------------------------------------------------- C8
\* C8: a poll that finds an empty or whitespace-only text leaves the
\* last-seen content unchanged and adds no text entry; when the clipboard
\* holds no image either, the history and the file are unchanged too.
C8_BlankTextIgnored ==
    [][(check_clipboard /\ HoldsBlankText)
        => /\ current_content' = current_content
           /\ \A i \in 1..Len(history') :
                  history'[i].type = "text"
                      => \E j \in 1..Len(history) : history[j] = history'[i]
           /\ clipImage = None => (history' = history /\ file' = file)]_vars

\* The state after a poll that found only a whitespace-only text, with a
\* history.
C8_Witness ==
    /\ pc = "polled"
    /\ clipText = Some(<<" ">>)
    /\ clipImage = None
    /\ history # <<>>

\* ------------------------------------------------------------- C9
\* C9: while the program runs, the entries the history file holds are the
\* in-memory history.
C9_FileMatchesHistory == Running => StoredEntries(file) = history

\* A running state after observations of a text and of an image with the
\* capacity changed from its default.
C9_Witness ==
    /\ Running
    /\ file # None
    /\ Len(history) >= 2
    /\ \E i, j \in 1..Len(history) :
           history[i].type = "text" /\ history[j].type = "image"
    /\ max_history # DefaultMaxHistory

\* ------------------------------------------------------------- C10
\* The round trip of save_history and load_history on its own: any history of
\* text entries and of image entries with a payload is saved, then loaded.
RoundTripItems ==
    {ClipboardItem(t, ts, "text", None) : t \in Texts, ts \in Times}
    \cup {ClipboardItem(ImageLabel(ts), ts, "image", Some(B64Png(p))) :
             p \in Pixbufs, ts \in Times}

RoundTripHistories == UNION {[1..n -> RoundTripItems] : n \in 0..RoundTripLen}

RoundTripInit ==
    /\ InitUi
    /\ pc = "running"
    /\ history \in RoundTripHistories
    /\ listbox = history
    /\ max_history = DefaultMaxHistory
    /\ current_content = <<>>
    /\ file = None
    /\ clipText = None
    /\ clipImage = None
    /\ clock = 0

\* save_history
save_history ==
    /\ pc = "running"
    /\ pc' = "saved"
    /\ file' = Saved(history, file)
    /\ UNCHANGED <<history, max_history, current_content, listbox, clipText,
                   clipImage, clock>>
    /\ UNCHANGED <<windowVars, hotkeyVars, busVars>>

\* load_history on the file just saved
reload_history ==
    /\ pc = "saved"
    /\ pc' = "loaded"
    /\ LoadBody
    /\ UNCHANGED <<max_history, file, clipText, clipImage, clock>>
    /\ UNCHANGED <<windowVars, hotkeyVars, busVars>>

RoundTripNext == save_history \/ reload_history

RoundTripSpec == RoundTripInit /\ [][RoundTripNext]_vars

\* C10: load_history after save_history yields the saved history: the same
\* entries in the same order, each with the same content, type, timestamp
\* and image_data.
C10_SaveLoadRoundTrip ==
    [][(pc = "saved" /\ pc' = "loaded") => history' = history]_vars

\* A loaded history of a text entry and an image entry, one of them with a
\* timestamp that has a sub-second part.
C10_Witness ==
    /\ pc = "loaded"
    /\ Len(history) = 2
    /\ history[1].type = "image"
    /\ history[2].type = "text"
    /\ history[1].timestamp % TicksPerSec # 0

\* ------------------------------------------------------------- C11
\* C11: a confirmed clear leaves the history empty whatever it held, and
\* leaves a history file that holds the empty list: the load of the next
\* start reads no entry from it, so a history that is empty when the main
\* loop starts stays the history of a cleared file.
C11_ClearEmptiesAndPersists ==
    [][/\ ClearAll("YES") =>
            /\ history' = <<>>
            /\ file' = Some(JsonList(<<>>))
            /\ StoredEntries(file') = <<>>
       /\ (load_history /\ file = Some(JsonList(<<>>))) => history' = <<>>]_vars

\* After a clear of a history that held an entry: a text was recorded in this
\* run (self.current_content is set), the history is empty and the file holds
\* the empty list.
C11_Witness ==
    /\ pc = "running"
    /\ history = <<>>
    /\ current_content # <<>>
    /\ file = Some(JsonList(<<>>))

\* ------------------------------------------------------------- C12
\* Startup on a history file in any condition: missing, not JSON, JSON that
\* is not a list, or a list of at most LoadLen records, each one written by
\* to_dict or one from_dict rejects.
GoodRecords ==
    {to_dict(ClipboardItem(Text(NumTexts), 0, "text", None)),
     to_dict(ImageItem(B64Png(1), MaxClock))}

\* A record without the key "content", one whose timestamp is "" and an
\* empty object.
BadRecords ==
    {[k \in {"timestamp", "type"} |-> IF k = "type" THEN "text" ELSE IsoFormat(0)],
     [k \in {"content", "timestamp", "type"} |->
         IF k = "type" THEN "text" ELSE <<>>],
     [k \in {} |-> <<>>]}

LoadFiles ==
    {None, Some([kind |-> "garbage", items |-> <<>>]),
     Some([kind |-> "object", items |-> <<>>])}
    \cup {Some(JsonList(l)) :
             l \in UNION {[1..n -> GoodRecords \cup BadRecords] : n \in 0..LoadLen}}

LoadInit ==
    /\ InitUi
    /\ pc = "start"
    /\ history = <<>>
    /\ max_history = DefaultMaxHistory
    /\ current_content = <<>>
    /\ listbox = <<>>
    /\ file \in LoadFiles
    /\ clipText = None
    /\ clipImage = None
    /\ clock = 0

LoadNext == load_history \/ check_clipboard \/ SetClipboard

LoadSpec == LoadInit /\ [][LoadNext]_vars

FileMissing == file = None

FileUnparsable == file # None /\ file[1].kind = "garbage"

FileNotAList == file # None /\ file[1].kind = "object"

FileHasBadRecord ==
    /\ file # None
    /\ file[1].kind = "list"
    /\ \E i \in 1..Len(file[1].items) : file[1].items[i] \in BadRecords

\* C12: load_history on a file that is missing, unparsable, not a list or
\* that holds a record from_dict rejects leaves the history empty, whatever
\* the records before and after the rejected one, and the main loop starts.
C12_BadFileLoadsNothing ==
    [][(load_history
        /\ (FileMissing \/ FileUnparsable \/ FileNotAList \/ FileHasBadRecord))
       => (history' = <<>> /\ listbox' = <<>> /\ pc' = "running")]_vars

\* The timer has fired after the load of a list whose first record decodes
\* and whose second does not: the history is still empty.
C12_Witness ==
    /\ pc = "polled"
    /\ FileHasBadRecord
    /\ Len(file[1].items) = 2
    /\ file[1].items[1] \in GoodRecords
    /\ history = <<>>

\* ------------------------------------------------------------- the window
\* show_window: show_all(), present() and the flag.
show_window ==
    /\ window' = "shown"
    /\ is_visible' = TRUE

\* hide_window: hide() and the flag.
hide_window ==
    /\ window' = "hidden"
    /\ is_visible' = FALSE

\* toggle_window decides on the flag.
toggle_window == IF is_visible THEN hide_window ELSE show_window

\* The tray icon or its menu entry "Open FluentClip": show_window.
on_tray_open ==
    /\ Running
    /\ pc' = "running"
    /\ show_window
    /\ UNCHANGED <<history, max_history, current_content, listbox, file, clipText,
                   clipImage, clock, hotkeyVars, busVars>>

\* ------------------------------------------------------------- search and selection
\* str.lower() on the characters that occur.
LowerChar(c) ==
    CASE c = "A" -> "a"
      [] c = "B" -> "b"
      [] c = "I" -> "i"
      [] c = "M" -> "m"
      [] c = "P" -> "p"
      [] OTHER -> c

Lower(s) == [i \in 1..Len(s) |-> LowerChar(s[i])]

\* "q in s" on two str.
Contains(s, q) ==
    \E k \in 0..(Len(s) - Len(q)) : SubSeq(s, k + 1, k + Len(q)) = q

\* The condition under which on_search_changed adds the item's row.
MatchesCaseSensitive(item, search_text) ==
    /\ item.type \in {"text", "image"}
    /\ Contains(item.content, search_text)

Matches(item, search_text) ==
    /\ item.type \in {"text", "image"}
    /\ Contains(Lower(item.content), search_text)

\* What the user may type into the search entry.
Queries ==
    {<<>>, <<"A">>, <<"b">>, <<"i", "M">>, <<"g", " ">>, <<"a", "b">>, <<"z">>}

\* on_search_changed with the entry's text: the rows are rebuilt from the
\* items of self.history that match.
Search(text) ==
    /\ Running
    /\ window = "shown"
    /\ pc' = "running"
    /\ LET search_text == Lower(text)
           Shown(item) == Matches(item, search_text)
       IN listbox' = SelectSeq(history, Shown)
    /\ UNCHANGED <<history, max_history, current_content, file, clipText,
                   clipImage, clock, windowVars, hotkeyVars, busVars>>

on_search_changed == \E text \in Queries : Search(text)

\* base64.b64decode and PixbufLoader on an item's image_data: the pixbuf
\* whose PNG it is, None when there is none (the except branch).
DecodePng(image_data) ==
    IF Truthy(image_data) /\ \E p \in Pixbufs : B64Png(p) = image_data[1]
    THEN Some(CHOOSE p \in Pixbufs : B64Png(p) = image_data[1])
    ELSE None

\* on_item_clicked as a handler that also moves the selected item to the top.
ItemClickedMovesToTop(i) ==
    /\ Running
    /\ window = "shown"
    /\ i \in 1..Len(listbox)
    /\ pc' = "running"
    /\ clipText' = Some(listbox[i].content)
    /\ clipImage' = None
    /\ history' = InsertFront(SelectSeq(history, LAMBDA x : x # listbox[i]),
                              listbox[i])
    /\ listbox' = history'
    /\ file' = Saved(history', file)
    /\ hide_window
    /\ UNCHANGED <<max_history, current_content, clock, hotkeyVars, busVars>>

\* on_item_clicked on the i-th row shown: the row's item goes to the
\* clipboard (set_text or set_image take the clipboard over), then
\* hide_window.
ItemClicked(i) ==
    /\ Running
    /\ window = "shown"
    /\ i \in 1..Len(listbox)
    /\ pc' = "running"
    /\ LET item == listbox[i]
       IN CASE item.type = "text" ->
                 /\ clipText' = Some(item.content)
                 /\ clipImage' = None
            [] item.type = "image" /\ DecodePng(item.image_data) # None ->
                 /\ clipText' = None
                 /\ clipImage' = DecodePng(item.image_data)
            [] OTHER -> UNCHANGED <<clipText, clipImage>>
    /\ hide_window
    /\ UNCHANGED <<history, max_history, current_content, listbox, file, clock,
                   hotkeyVars, busVars>>

on_item_clicked == \E i \in 1..Len(listbox) : ItemClicked(i)

\* The window in use: the timer, other applications' copies, searches,
\* selections and the tray icon that brings the window back.
BrowseNext ==
    \/ load_history
    \/ check_clipboard
    \/ SetClipboard
    \/ on_search_changed
    \/ on_item_clicked
    \/ on_tray_open

BrowseSpec == Init /\ [][BrowseNext]_vars

\* ------------------------------------------------------------- C13
\* C13: the activation of a row puts that row's entry on the clipboard (its
\* text, or the image its payload encodes) and changes neither the history
\* (entries, order, length) nor the history file.
C13_SelectionKeepsHistory ==
    [][\A i \in 1..Len(listbox) :
          ItemClicked(i) =>
              /\ history' = history
              /\ file' = file
              /\ IF listbox[i].type = "text"
                 THEN clipText' = Some(listbox[i].content)
                 ELSE /\ clipImage' # None
                      /\ Some(B64Png(clipImage'[1])) = listbox[i].image_data]_vars

\* A row below the first one was activated: the clipboard holds the text of
\* the history's second entry, the window is hidden, and the timer has not
\* fired since.
C13_Witness ==
    /\ pc = "running"
    /\ window = "hidden"
    /\ Len(history) >= 2
    /\ history[2].type = "text"
    /\ clipText = Some(history[2].content)
    /\ current_content # history[2].content

\* ------------------------------------------------------------- C14
\* Two characters that differ at most in case.
SameLetter(a, b) ==
    \/ a = b
    \/ <<a, b>> \in {<<"A", "a">>, <<"a", "A">>, <<"B", "b">>, <<"b", "B">>,
                     <<"I", "i">>, <<"i", "I">>, <<"M", "m">>, <<"m", "M">>,
                     <<"P", "p">>, <<"p", "P">>}

\* content contains q, case ignored.
ContainsIgnoringCase(content, q) ==
    \E k \in 0..(Len(content) - Len(q)) :
        \A j \in 1..Len(q) : SameLetter(content[k + j], q[j])

\* rows is the subsequence of h made of the entries that contain q.
IsSearchResult(rows, h, q) ==
    \E f \in [1..Len(rows) -> 1..Len(h)] :
        /\ \A k \in 1..Len(rows) : rows[k] = h[f[k]]
        /\ \A k, l \in 1..Len(rows) : k < l => f[k] < f[l]
        /\ {f[k] : k \in 1..Len(rows)} =
               {i \in 1..Len(h) : ContainsIgnoringCase(h[i].content, q)}

\* C14: a search for q shows exactly the entries whose content contains q,
\* case ignored, in the order of the history; it leaves the history as it
\* was; the empty query shows every entry and a query that nothing contains
\* shows none.
C14_SearchShowsMatches ==
    [][\A q \in Queries :
          Search(q) =>
              /\ IsSearchResult(listbox', history, q)
              /\ history' = history
              /\ file' = file
              /\ (q = <<>> => listbox' = history)
              /\ ((\A i \in 1..Len(history) :
                       ~ContainsIgnoringCase(history[i].content, q))
                  => listbox' = <<>>)]_vars

\* After a search: of a history of at least two entries some are shown and
\* some are not.
C14_Witness ==
    /\ pc = "running"
    /\ Len(history) >= 2
    /\ listbox # <<>>
    /\ Len(listbox) < Len(history)

\* ------------------------------------------------------------- launches
\* The program is started once more: the process enters main().
Launch(p) ==
    /\ procs[p].at = "none"
    /\ procs' = [procs EXCEPT ![p].at = "main"]
    /\ UNCHANGED <<busName, storeVars, windowVars, hotkeyVars>>

\* single_instance_check in process p: with an owner of the name, its toggle
\* method runs toggle_window there and p returns from main(); without one
\* get_object raises DBusException and p goes on.
single_instance_check(p) ==
    /\ procs[p].at = "main"
    /\ IF busName # <<>>
       THEN procs' = [procs EXCEPT
                         ![p].at = "exited",
                         ![Head(busName)].is_visible = ~procs[Head(busName)].is_visible]
       ELSE procs' = [procs EXCEPT ![p].at = "checked"]
    /\ UNCHANGED <<busName, storeVars, windowVars, hotkeyVars>>

\* "app = FluentClip()" in process p.
Construct(p) ==
    /\ procs[p].at = "checked"
    /\ procs' = [procs EXCEPT ![p].at = "constructed"]
    /\ UNCHANGED <<busName, storeVars, windowVars, hotkeyVars>>

\* "service = FluentClipService(app)" in process p: BusName requests the
\* name, which queues the request behind an owner; then Gtk.main().
Serve(p) ==
    /\ procs[p].at = "constructed"
    /\ procs' = [procs EXCEPT ![p].at = "serving"]
    /\ busName' = IF \E i \in 1..Len(busName) : busName[i] = p
                  THEN busName
                  ELSE Append(busName, p)
    /\ UNCHANGED <<storeVars, windowVars, hotkeyVars>>

\* Gtk.main_quit in process p: the bus drops its request for the name.
Quit(p) ==
    /\ procs[p].at = "serving"
    /\ procs' = [procs EXCEPT ![p].at = "exited"]
    /\ busName' = SelectSeq(busName, LAMBDA q : q # p)
    /\ UNCHANGED <<storeVars, windowVars, hotkeyVars>>

InstanceNext ==
    \E p \in Procs :
        \/ Launch(p)
        \/ single_instance_check(p)
        \/ Construct(p)
        \/ Serve(p)
        \/ Quit(p)

InstanceSpec == Init /\ [][InstanceNext]_vars

\* The processes that hold a FluentClip (a store and a window).
Instances == {p \in Procs : procs[p].at \in {"constructed", "serving"}}

\* ------------------------------------------------------------- C15
\* C15: whatever the order in which launched processes take their steps, at
\* no time do two of them hold a FluentClip.
C15_AtMostOneInstance == Cardinality(Instances) <= 1

\* ------------------------------------------------------------- the hotkey
SuperKeys == {"Super_L", "Super_R"}

Keys == SuperKeys \cup {"v"}

\* _process_event as a handler that runs the callback in the capture thread.
ProcessEventCallsBack(kind, keysym) ==
    /\ super_pressed' =
           IF keysym \in SuperKeys THEN kind = "KeyPress" ELSE super_pressed
    /\ IF kind = "KeyPress" /\ keysym = "v" /\ super_pressed
       THEN toggle_window
       ELSE UNCHANGED windowVars
    /\ UNCHANGED <<idleQueue, storeVars>>

\* _process_event on one event of the capture thread: a Super key sets or
\* clears super_pressed, v pressed while super_pressed hands the callback
\* to GLib.idle_add; the thread touches nothing else.
process_event(kind, keysym) ==
    /\ IF kind = "KeyPress"
       THEN IF keysym \in SuperKeys
            THEN super_pressed' = TRUE /\ UNCHANGED idleQueue
            ELSE IF super_pressed /\ keysym = "v"
                 THEN idleQueue' = idleQueue + 1 /\ UNCHANGED super_pressed
                 ELSE UNCHANGED <<super_pressed, idleQueue>>
       ELSE IF keysym \in SuperKeys
            THEN super_pressed' = FALSE /\ UNCHANGED idleQueue
            ELSE UNCHANGED <<super_pressed, idleQueue>>
    /\ UNCHANGED <<windowVars, storeVars>>

\* The user presses a key that is up; the X server reports it to the
\* capture thread, which runs while the program does.
KeyPress(k) ==
    /\ Running
    /\ k \notin keysDown
    /\ (k = "v" /\ super_pressed) => idleQueue < MaxPending
    /\ keysDown' = keysDown \cup {k}
    /\ process_event("KeyPress", k)
    /\ UNCHANGED busVars

\* The user releases a key that is down.
KeyRelease(k) ==
    /\ Running
    /\ k \in keysDown
    /\ keysDown' = keysDown \ {k}
    /\ process_event("KeyRelease", k)
    /\ UNCHANGED busVars

KeyEvent == \E k \in Keys : KeyPress(k) \/ KeyRelease(k)

\* The main loop runs a callback GLib.idle_add queued: toggle_window, which
\* returns None and so runs once.
RunIdle ==
    /\ Running
    /\ idleQueue > 0
    /\ idleQueue' = idleQueue - 1
    /\ pc' = "running"
    /\ toggle_window
    /\ UNCHANGED <<history, max_history, current_content, listbox, file, clipText,
                   clipImage, clock, super_pressed, keysDown, busVars>>

\* FluentClipService.toggle, called over D-Bus by another launch.
toggle ==
    /\ Running
    /\ pc' = "running"
    /\ toggle_window
    /\ UNCHANGED <<history, max_history, current_content, listbox, file, clipText,
                   clipImage, clock, hotkeyVars, busVars>>

\* on_minimize: iconify().
on_minimize ==
    /\ Running
    /\ window = "shown"
    /\ pc' = "running"
    /\ window' = "iconified"
    /\ UNCHANGED <<history, max_history, current_content, listbox, file, clipText,
                   clipImage, clock, is_visible, hotkeyVars, busVars>>

\* The close button, the Escape key or the loss of focus: hide_window.
on_focus_out ==
    /\ Running
    /\ window = "shown"
    /\ pc' = "running"
    /\ hide_window
    /\ UNCHANGED <<history, max_history, current_content, listbox, file, clipText,
                   clipImage, clock, hotkeyVars, busVars>>

WindowNext ==
    \/ load_history
    \/ KeyEvent
    \/ RunIdle
    \/ toggle
    \/ on_minimize
    \/ on_focus_out
    \/ on_tray_open

WindowSpec == Init /\ [][WindowNext]_vars

\* ------------------------------------------------------------- C16
\* C16: a key event handled by the capture thread changes neither the
\* history, the file or any other field of the store nor the window and its
\* flag; a Super+V it detects adds one callback to the main loop's queue.
C16_CaptureThreadOnlyEnqueues ==
    [][KeyEvent =>
          /\ UNCHANGED <<storeVars, windowVars>>
          /\ idleQueue' \in {idleQueue, idleQueue + 1}
          /\ (KeyPress("v") /\ super_pressed) => idleQueue' = idleQueue + 1]_vars

\* Super+V was detected and its callback waits in the queue: Super_L and v
\* are down and the window is as main() left it.
C16_Witness ==
    /\ idleQueue = 1
    /\ keysDown = {"Super_L", "v"}
    /\ window = "shown"
    /\ ~is_visible

\* ------------------------------------------------------------- C17
\* C17: a tick of the timer that follows a tick, with the clipboard as the
\* earlier tick found it, holding no new text and the image that the top
\* entry of the history records, changes neither the history (the top
\* entry's label and timestamp included) nor the file.
C17_SameImageTickIsNoOp ==
    [][(/\ check_clipboard
        /\ pc = "polled"
        /\ ~IsNewText(clipText, current_content)
        /\ clipImage # None
        /\ history # <<>>
        /\ history[1].type = "image"
        /\ history[1].image_data = Some(B64Png(clipImage[1])))
       => (history' = history /\ file' = file)]_vars

\* ------------------------------------------------------------- C18
\* C18: while the program runs, is_visible is true exactly when the window
\* is shown.
C18_FlagMatchesWindow == Running => (is_visible <=> window = "shown")

\* ------------------------------------------------------------- C19
\* C19: a press of v schedules a toggle exactly when a Super key is held
\* down at that moment.
C19_ToggleIffSuperHeld ==
    [][KeyPress("v") =>
          ((idleQueue' = idleQueue + 1) <=> (keysDown \cap SuperKeys # {}))]_vars

====
